---------------------------- MODULE Spec2Model ----------------------------
(***************************************************************************)
(* The expense tracker of src/app/page.tsx as a state machine.             *)
(*                                                                         *)
(* State: the React state of Page (expenses and the form fields), the      *)
(* localStorage slot "expenses_v1", and whether the page is mounted.       *)
(* One action per event: Mount (first render, both effects, the re-render  *)
(* the load causes and its save effect), the five field setters,           *)
(* addExpense and removeExpense (each with the re-render and the save      *)
(* effect that follow), and Close (the tab is closed or reloaded).         *)
(*                                                                         *)
(* Numbers are IEEE-754 doubles: a finite non-negative double is held      *)
(* exactly, as a fixed-point numeral of limbs, and every arithmetic        *)
(* operation rounds its exact result to 53 significant bits, ties to even. *)
(* Strings that the code parses or trims are sequences of characters.      *)
(* Dates "YYYY-MM-DD" are the integers YYYYMMDD ("" is 0) and month keys   *)
(* "YYYY-MM" the integers YYYYMM.                                          *)
(***************************************************************************)
EXTENDS Integers, Sequences, FiniteSets, TLC

VARIABLES
    phase,          \* "unmounted" | "mounted" | "crashed" (render threw)
    slot,           \* the text under STORAGE_KEY in localStorage
    expenses,       \* useState<Expense[]>: the in-memory collection
    date,           \* form field: date string
    amount,         \* form field: amount string
    category,       \* form field: category
    note,           \* form field: note string
    filterMonth,    \* the selected month key
    writeFailures,  \* how many setItem calls have thrown so far
    last,           \* the last event handled and the storage calls it made
    prev            \* while unmounted: what the closed page held in memory

vars == <<phase, slot, expenses, date, amount, category, note, filterMonth,
          writeFailures, last, prev>>

---------------------------------------------------------------------------
(* Bounds of the model *)

\* the longest collection the model lets addExpense build
MaxExpenses == 2
\* how many setItem calls may throw in one behaviour
MaxWriteFailures == 1
\* InitForm draws every amount text over AmountChars up to this length
MaxAmountLen == 3
\* InitForm draws every note text over NoteChars up to this length
MaxNoteLen == 2
\* the longest collection that InitStore and InitTotals draw
MaxDrawnLen == 3
\* fixed-point window of the numerals: limbs below and above the point
FracLimbs == 5
IntLimbs == 2

---------------------------------------------------------------------------
(* IEEE-754 double arithmetic on non-negative finite values *)

\* significant bits of a JS number
Precision == 53

LimbBits == 16
Base == 2^LimbBits
NL == FracLimbs + IntLimbs

RECURSIVE Digit(_, _)
Digit(n, j) == IF j = 0 THEN n % Base ELSE Digit(n \div Base, j - 1)

\* the integer n as a numeral: limb 1 is the least significant
BigFromInt(n) ==
    [i \in 1..NL |-> IF i <= FracLimbs THEN 0 ELSE Digit(n, i - FracLimbs - 1)]

BigZero == BigFromInt(0)

RECURSIVE AddFrom(_, _, _, _)
\* limbs i.. of a + b, given the carry into limb i
AddFrom(a, b, i, carry) ==
    IF i > NL THEN <<>>
    ELSE <<(a[i] + b[i] + carry) % Base>>
         \o AddFrom(a, b, i + 1, (a[i] + b[i] + carry) \div Base)

BigAdd(a, b) == AddFrom(a, b, 1, 0)

RECURSIVE MulFrom(_, _, _, _)
MulFrom(a, m, i, carry) ==
    IF i > NL THEN <<>>
    ELSE <<(a[i] * m + carry) % Base>>
         \o MulFrom(a, m, i + 1, (a[i] * m + carry) \div Base)

BigMulSmall(a, m) == MulFrom(a, m, 1, 0)

RECURSIVE DivFrom(_, _, _, _)
\* long division by a small integer, from the top limb down: the limbs 1..i
\* of the quotient, then the remainder, given the remainder above limb i
DivFrom(a, d, i, rem) ==
    IF i = 0 THEN <<rem>>
    ELSE DivFrom(a, d, i - 1, (rem * Base + a[i]) % d)
         \o <<(rem * Base + a[i]) \div d>>

\* <<remainder, quotient limb 1, ..., quotient limb NL>>
DivMod(a, d) == DivFrom(a, d, NL, 0)

RECURSIVE IntBitLen(_)
IntBitLen(n) == IF n = 0 THEN 0 ELSE 1 + IntBitLen(n \div 2)

RECURSIVE TopLimb(_, _)
TopLimb(a, i) == IF i = 0 THEN 0 ELSE IF a[i] # 0 THEN i ELSE TopLimb(a, i - 1)

BitLen(a) ==
    LET t == TopLimb(a, NL)
    IN  IF t = 0 THEN 0 ELSE LimbBits * (t - 1) + IntBitLen(a[t])

Bit(a, p) == (a[(p \div LimbBits) + 1] \div 2^(p % LimbBits)) % 2

LowNonZero(a, p) ==
    \E i \in 1..NL : \/ i <= p \div LimbBits /\ a[i] # 0
                     \/ i = (p \div LimbBits) + 1 /\ a[i] % 2^(p % LimbBits) # 0

Trunc(a, p) ==
    [i \in 1..NL |->
        IF i <= p \div LimbBits THEN 0
        ELSE IF i = (p \div LimbBits) + 1 THEN a[i] - (a[i] % 2^(p % LimbBits))
        ELSE a[i]]

Pow2Big(p) ==
    [i \in 1..NL |-> IF i = (p \div LimbBits) + 1 THEN 2^(p % LimbBits) ELSE 0]

\* a with its d lowest bits rounded away, ties to even
RoundAt(a, d, sticky) ==
    IF Bit(a, d - 1) = 1 /\ (sticky \/ LowNonZero(a, d - 1) \/ Bit(a, d) = 1)
    THEN BigAdd(Trunc(a, d), Pow2Big(d))
    ELSE Trunc(a, d)

\* the exact value a (plus a non-zero tail below the numeral when sticky)
\* rounded to Precision significant bits, ties to even
RoundSig(a, sticky) ==
    IF BitLen(a) <= Precision THEN a ELSE RoundAt(a, BitLen(a) - Precision, sticky)

\* the double nearest to n / d, for integers n >= 0 and d > 0
FDivOf(qr) == RoundSig(Tail(qr), Head(qr) # 0)

FDiv(n, d) == FDivOf(DivMod(BigFromInt(n), d))

\* the double a * m, for a small integer m
FMul(a, m) == RoundSig(BigMulSmall(a, m), FALSE)

\* the double a + b
FAdd(a, b) == RoundSig(BigAdd(a, b), FALSE)

IntPart(a) == a[FracLimbs + 1] + Base * a[FracLimbs + 2]

\* Math.round of a non-negative double: halves go up
MathRound(a) == IntPart(a) + Bit(a, LimbBits * FracLimbs - 1)

---------------------------------------------------------------------------
(* JS numbers and strings *)

\* a JS value in an amount field: a finite double, Infinity, or null (what
\* JSON holds for a non-finite number)
Fin(v) == [k |-> "fin", v |-> v]
Inf == [k |-> "inf", v |-> BigZero]
NullNum == [k |-> "null", v |-> BigZero]

DigitVal ==
    [c \in {"0", "1", "2", "3", "4", "5", "6", "7", "8", "9"} |->
        CASE c = "0" -> 0 [] c = "1" -> 1 [] c = "2" -> 2 [] c = "3" -> 3
          [] c = "4" -> 4 [] c = "5" -> 5 [] c = "6" -> 6 [] c = "7" -> 7
          [] c = "8" -> 8 [] c = "9" -> 9]

IsDigit(c) == c \in DOMAIN DigitVal

IsSpace(c) == c = " "

RECURSIVE SkipSpaces(_)
SkipSpaces(s) ==
    IF s # <<>> /\ IsSpace(Head(s)) THEN SkipSpaces(Tail(s)) ELSE s

RECURSIVE DigitRun(_)
\* the longest prefix of s made of digits
DigitRun(s) ==
    IF s # <<>> /\ IsDigit(Head(s)) THEN <<Head(s)>> \o DigitRun(Tail(s)) ELSE <<>>

RECURSIVE DigitsToInt(_)
DigitsToInt(ds) ==
    IF ds = <<>> THEN 0
    ELSE 10 * DigitsToInt(SubSeq(ds, 1, Len(ds) - 1)) + DigitVal[ds[Len(ds)]]

RECURSIVE Pow10(_)
Pow10(k) == IF k = 0 THEN 1 ELSE 10 * Pow10(k - 1)

Drop(s, n) == SubSeq(s, n + 1, Len(s))

InfinityText == <<"I", "n", "f", "i", "n", "i", "t", "y">>

StartsWith(s, p) == Len(s) >= Len(p) /\ SubSeq(s, 1, Len(p)) = p

\* parseFloat: leading white space is skipped, then the longest prefix that
\* is a decimal literal (sign, Infinity or digits with an optional fraction)
\* is converted to the nearest double; NaN when there is none.  Exponent
\* parts are outside the alphabet of the model.
ParseFloat(s) ==
    LET t    == SkipSpaces(s)
        sgn  == t # <<>> /\ Head(t) \in {"-", "+"}
        neg  == t # <<>> /\ Head(t) = "-"
        u    == IF sgn THEN Tail(t) ELSE t
        ip   == DigitRun(u)
        r    == Drop(u, Len(ip))
        fp   == IF r # <<>> /\ Head(r) = "." THEN DigitRun(Tail(r)) ELSE <<>>
    IN  IF StartsWith(u, InfinityText)
            THEN [k |-> "inf", neg |-> neg, v |-> BigZero]
        ELSE IF ip = <<>> /\ fp = <<>>
            THEN [k |-> "nan", neg |-> FALSE, v |-> BigZero]
        ELSE [k |-> "fin", neg |-> neg,
              v |-> FDiv(DigitsToInt(ip \o fp), Pow10(Len(fp)))]

RECURSIVE TrimStart(_)
TrimStart(s) == IF s # <<>> /\ IsSpace(Head(s)) THEN TrimStart(Tail(s)) ELSE s

RECURSIVE TrimEnd(_)
TrimEnd(s) ==
    IF s # <<>> /\ IsSpace(s[Len(s)]) THEN TrimEnd(SubSeq(s, 1, Len(s) - 1)) ELSE s

\* String.prototype.trim
Trim(s) == TrimEnd(TrimStart(s))

\* x + y as the reducers compute it: null converts to 0
JSAdd(x, y) ==
    IF x.k = "inf" \/ y.k = "inf" THEN Inf
    ELSE Fin(FAdd(x.v, y.v))

\* Math.round(value * 100) / 100
RoundToCents(value) ==
    IF value.k = "inf" THEN Inf ELSE Fin(FDiv(MathRound(FMul(value.v, 100)), 100))

---------------------------------------------------------------------------
(* Dates and month keys *)

\* new Date(): the day the page runs
Today == 20261104

\* new Date().toISOString().slice(0, 10)
TodayISO == Today

\* monthKey: the local year and month of the date's midnight, "YYYY-MM"
monthKey(dateStr) == dateStr \div 100

---------------------------------------------------------------------------
(* The data model, JSON and the storage slot *)

CATEGORIES ==
    <<"Groceries", "Dining", "Transport", "Housing", "Health",
      "Entertainment", "Utilities", "Travel", "Other">>

\* type Expense
Expense(id, d, a, c, n) ==
    [id |-> id, date |-> d, amount |-> a, category |-> c, note |-> n]

\* JS values that the expenses state can hold: an array of Expense or, after
\* a load of JSON of another shape, an object, a number or null
ArrayOf(items) == [t |-> "array", items |-> items]
EmptyArray == ArrayOf(<<>>)
NonArray(t) == [t |-> t, items |-> <<>>]

\* the text of the slot: absent (getItem gives null), the empty string, text
\* that is no JSON, or the JSON text of a value
Absent == [t |-> "absent", v |-> NonArray("null")]
EmptyText == [t |-> "empty", v |-> NonArray("null")]
Garbage == [t |-> "garbage", v |-> NonArray("null")]
JsonText(v) == [t |-> "json", v |-> v]

\* JSON has no Infinity: a non-finite number is written as null
JsonNumber(a) == IF a.k = "inf" THEN NullNum ELSE a

\* JSON.stringify
Stringify(value) ==
    JsonText([t |-> value.t,
              items |-> [i \in 1..Len(value.items) |->
                            [value.items[i] EXCEPT !.amount = JsonNumber(@)]]])

\* JSON.parse of a text that is JSON: the value the text denotes
Parse(text) == text.v

\* the texts a slot can hold when the page is first opened
InitialSlots ==
    {Absent, EmptyText, Garbage,
     JsonText(NonArray("null")), JsonText(NonArray("number")),
     JsonText(NonArray("object")), JsonText(EmptyArray)}

---------------------------------------------------------------------------
(* Derived values of a render *)

RECURSIVE SelectSeq2(_, _)
\* Array.prototype.filter with the month test
SelectSeq2(items, m) ==
    IF items = <<>> THEN <<>>
    ELSE IF monthKey(Head(items).date) = m
         THEN <<Head(items)>> \o SelectSeq2(Tail(items), m)
         ELSE SelectSeq2(Tail(items), m)

\* filtered
Filtered(items, m) == SelectSeq2(items, m)

RECURSIVE Total(_)
\* filtered.reduce((s, e) => s + e.amount, 0)
Total(items) ==
    IF items = <<>> THEN Fin(BigZero)
    ELSE JSAdd(Total(SubSeq(items, 1, Len(items) - 1)), items[Len(items)].amount)

MapHas(map, key) == \E i \in 1..Len(map) : map[i].key = key

MapGet(map, key) == map[CHOOSE i \in 1..Len(map) : map[i].key = key].val

\* Map.prototype.set: a new key goes last, an old key keeps its place
MapSet(map, key, val) ==
    IF MapHas(map, key)
    THEN [i \in 1..Len(map) |->
            IF map[i].key = key THEN [key |-> key, val |-> val] ELSE map[i]]
    ELSE Append(map, [key |-> key, val |-> val])

AccumulateWrong(map, e) == MapSet(map, e.category, e.amount)

\* one turn of the loop over filtered
Accumulate(map, e) ==
    MapSet(map, e.category,
           JSAdd(IF MapHas(map, e.category) THEN MapGet(map, e.category)
                 ELSE Fin(BigZero),
                 e.amount))

RECURSIVE ByCategory(_)
ByCategory(items) ==
    IF items = <<>> THEN <<>>
    ELSE Accumulate(ByCategory(SubSeq(items, 1, Len(items) - 1)), items[Len(items)])

\* totals
Totals(items) == [total |-> Total(items), byCategory |-> ByCategory(items)]

\* monthsAvailable, as the set of its keys
MonthsAvailable(items) ==
    LET keys == {monthKey(items[i].date) : i \in 1..Len(items)}
    IN  IF keys = {} THEN {monthKey(TodayISO)} ELSE keys

\* whether rendering Page with this state throws: filter is no method of an
\* object or a number, and null has no properties
RenderThrows(value) == value.t # "array"

---------------------------------------------------------------------------
(* Inputs *)

\* the dates that SetDate picks: today, a day of the month before
DateInputs == {Today, 20261015}

\* amount texts that SetAmount types: empty, a valid amount, Infinity
AmountInputs == {<<>>, <<"1", ".", "5">>, InfinityText}

\* note texts that SetNote types
NoteInputs == {<<>>, <<" ">>}

\* the categories that SetCategory selects
CategoryInputs == {CATEGORIES[1], CATEGORIES[2]}

\* every text over the characters cs of length at most n
Texts(cs, n) == UNION {[1..k -> cs] : k \in 0..n}

AmountChars == {"0", "5", ".", "-", "a"}

NoteChars == {" ", "x"}

\* the amount texts that InitForm draws: the short texts over AmountChars
\* and some longer ones
AmountTexts ==
    Texts(AmountChars, MaxAmountLen)
    \cup {InfinityText, <<"-", "I", "n", "f", "i", "n", "i", "t", "y">>,
          <<"0", ".", "0", "0", "4">>, <<"0", ".", "0", "0", "5">>,
          <<"1", ".", "0", "0", "5">>, <<"1", "2", ".", "3", "4", "5">>,
          <<"+", "1", ".", "5">>, <<" ", "5">>, <<"5", " ">>,
          <<"1", "0", "0", "0", "0", "0">>}

NoteTexts == Texts(NoteChars, MaxNoteLen)

\* ids that crypto.randomUUID can return and that a Delete click can carry
IdSpace == 1..(MaxExpenses + 1)

---------------------------------------------------------------------------
(* Bookkeeping of the last event *)

GetCall(text) == [op |-> "get", text |-> text, ok |-> TRUE]
SetCall(text, ok) == [op |-> "set", text |-> text, ok |-> ok]

\* event: which handler ran; calls: its localStorage calls in order;
\* changes: how many times it changed the expenses state; arg: the id it
\* created or was given
Event(e, calls, changes, arg) ==
    [event |-> e, calls |-> calls, changes |-> changes, arg |-> arg]

NoPrev == [held |-> FALSE, c |-> EmptyArray, saved |-> FALSE]

---------------------------------------------------------------------------
(* Persistence *)

\* localStorage.setItem inside try/catch: a call that throws leaves the slot
SetItemBroken(text, ok, cur) == IF ok THEN text ELSE Absent
SetItem(text, ok, cur) == IF ok THEN text ELSE cur

\* whether the load effect calls setExpenses: raw is truthy and parses
LoadSets(raw) == raw.t \notin {"absent", "empty"} /\ raw.t = "json"

Failures(oks) == Cardinality({i \in 1..Len(oks) : ~oks[i]})

---------------------------------------------------------------------------
(* Actions *)

\* the state of a page that is not open: the useState initial values
FreshForm ==
    /\ date' = TodayISO
    /\ amount' = <<>>
    /\ category' = CATEGORIES[1]
    /\ note' = <<>>
    /\ filterMonth' = monthKey(TodayISO)

\* Page is mounted: first render with the initial state, the load effect,
\* the save effect (it sees the initial, empty expenses), then, when the load
\* called setExpenses, the re-render and the save effect it triggers
Mount ==
    /\ phase = "unmounted"
    /\ \E ok1, ok2 \in BOOLEAN :
        LET raw    == slot
            loads  == LoadSets(raw)
            loaded == Parse(raw)
            first  == Stringify(EmptyArray)
            slot1  == SetItem(first, ok1, slot)
            crash  == loads /\ RenderThrows(loaded)
            again  == loads /\ ~crash
            slot2  == IF again THEN SetItem(Stringify(loaded), ok2, slot1) ELSE slot1
            calls  == <<GetCall(raw), SetCall(first, ok1)>>
                      \o (IF again THEN <<SetCall(Stringify(loaded), ok2)>> ELSE <<>>)
        IN  /\ again \/ ok2
            /\ writeFailures + Failures(<<ok1, ok2>>) <= MaxWriteFailures
            /\ writeFailures' = writeFailures + Failures(<<ok1, ok2>>)
            /\ phase' = IF crash THEN "crashed" ELSE "mounted"
            /\ expenses' = IF loads THEN loaded ELSE EmptyArray
            /\ slot' = slot2
            /\ last' = Event("mount", calls, IF loads THEN 1 ELSE 0, 0)
    /\ FreshForm
    /\ prev' = NoPrev

\* the tab is closed or reloaded: the in-memory state is gone
Close ==
    /\ phase \in {"mounted", "crashed"}
    /\ phase' = "unmounted"
    /\ prev' = [held |-> TRUE, c |-> expenses, saved |-> slot = Stringify(expenses)]
    /\ expenses' = EmptyArray
    /\ FreshForm
    /\ last' = Event("close", <<>>, 0, 0)
    /\ UNCHANGED <<slot, writeFailures>>

Edited == last' = Event("edit", <<>>, 0, 0)

SetDate ==
    /\ phase = "mounted"
    /\ \E d \in DateInputs : date' = d
    /\ Edited
    /\ UNCHANGED <<phase, slot, expenses, amount, category, note, filterMonth,
                   writeFailures, prev>>

SetAmount ==
    /\ phase = "mounted"
    /\ \E a \in AmountInputs : amount' = a
    /\ Edited
    /\ UNCHANGED <<phase, slot, expenses, date, category, note, filterMonth,
                   writeFailures, prev>>

SetCategory ==
    /\ phase = "mounted"
    /\ \E c \in CategoryInputs : category' = c
    /\ Edited
    /\ UNCHANGED <<phase, slot, expenses, date, amount, note, filterMonth,
                   writeFailures, prev>>

SetNote ==
    /\ phase = "mounted"
    /\ \E n \in NoteInputs : note' = n
    /\ Edited
    /\ UNCHANGED <<phase, slot, expenses, date, amount, category, filterMonth,
                   writeFailures, prev>>

\* the month selector offers the keys of monthsAvailable
SetFilterMonth ==
    /\ phase = "mounted"
    /\ \E m \in MonthsAvailable(expenses.items) : filterMonth' = m
    /\ Edited
    /\ UNCHANGED <<phase, slot, expenses, date, amount, category, note,
                   writeFailures, prev>>

\* the save effect after a re-render with a new expenses array
SaveEffect(e, arg, ok) ==
    /\ writeFailures + Failures(<<ok>>) <= MaxWriteFailures
    /\ writeFailures' = writeFailures + Failures(<<ok>>)
    /\ slot' = SetItem(Stringify(expenses'), ok, slot)
    /\ last' = Event(e, <<SetCall(Stringify(expenses'), ok)>>, 1, arg)

\* !date || isNaN(value) || value <= 0
Rejected(d, value) ==
    \/ d = 0
    \/ value.k = "nan"
    \/ value.neg
    \/ value.k = "fin" /\ value.v = BigZero

\* [item, ...prev]
PrependWrong(item, items) == items \o <<item>>
Prepend(item, items) == <<item>> \o items

\* the Expense addExpense builds
NewItem(id, d, value, c, n) == Expense(id, d, RoundToCents(value), c, Trim(n))

Ids(items) == {items[i].id : i \in 1..Len(items)}

\* crypto.randomUUID(): an id that no entry has.  Ids are only compared, so
\* the model takes the least one not in use
FreshId(items) ==
    CHOOSE i \in IdSpace \ Ids(items) : \A j \in IdSpace \ Ids(items) : i <= j

AddExpense ==
    /\ phase = "mounted"
    /\ LET value == ParseFloat(amount)
       IN  \/ /\ Rejected(date, value)
              /\ last' = Event("add", <<>>, 0, 0)
              /\ UNCHANGED <<phase, slot, expenses, date, amount, category, note,
                             filterMonth, writeFailures, prev>>
           \/ /\ ~Rejected(date, value)
              /\ Len(expenses.items) < MaxExpenses
              /\ \E id \in {FreshId(expenses.items)}, ok \in BOOLEAN :
                    /\ expenses' = ArrayOf(Prepend(NewItem(id, date, value, category, note),
                                                   expenses.items))
                    /\ SaveEffect("add", id, ok)
              /\ amount' = <<>>
              /\ note' = <<>>
              /\ UNCHANGED <<phase, date, category, filterMonth, prev>>

RECURSIVE RemoveByIdWrong(_, _)
RemoveByIdWrong(items, id) ==
    IF items = <<>> THEN <<>>
    ELSE IF Head(items).id = id THEN <<Head(items)>> \o RemoveByIdWrong(Tail(items), id)
    ELSE RemoveByIdWrong(Tail(items), id)

RECURSIVE RemoveById(_, _)
\* prev.filter(e => e.id !== id)
RemoveById(items, id) ==
    IF items = <<>> THEN <<>>
    ELSE IF Head(items).id # id THEN <<Head(items)>> \o RemoveById(Tail(items), id)
    ELSE RemoveById(Tail(items), id)

\* removeExpense(id); filter always returns a new array, so the page
\* re-renders and the save effect runs also when no entry had the id
RemoveExpense ==
    /\ phase = "mounted"
    /\ \E id \in IdSpace, ok \in BOOLEAN :
        /\ expenses' = ArrayOf(RemoveById(expenses.items, id))
        /\ SaveEffect("remove", id, ok)
    /\ UNCHANGED <<phase, date, amount, category, note, filterMonth, prev>>

---------------------------------------------------------------------------
(* Specifications *)

Init ==
    /\ phase = "unmounted"
    /\ slot \in InitialSlots
    /\ expenses = EmptyArray
    /\ date = TodayISO
    /\ amount = <<>>
    /\ category = CATEGORIES[1]
    /\ note = <<>>
    /\ filterMonth = monthKey(TodayISO)
    /\ writeFailures = 0
    /\ last = Event("none", <<>>, 0, 0)
    /\ prev = NoPrev

Next ==
    \/ Mount
    \/ Close
    \/ SetDate
    \/ SetAmount
    \/ SetCategory
    \/ SetNote
    \/ SetFilterMonth
    \/ AddExpense
    \/ RemoveExpense

Spec == Init /\ [][Next]_vars

---------------------------------------------------------------------------
(* SpecStore and SpecTotals start from a page that already holds a           *)
(* collection: one that addExpense builds, of up to MaxDrawnLen entries,    *)
(* saved to the slot.                                                       *)

DrawnAmounts == {<<"0", ".", "0", "1">>, <<"0", ".", "0", "4">>}

\* the collections of up to n entries of the given kinds, with distinct ids
Collections(entries, n) ==
    UNION {{[i \in 1..k |-> [f[i] EXCEPT !.id = i]] : f \in [1..k -> entries]} :
            k \in 0..n}

\* entries of either month, amount and category
TotalsEntries ==
    {NewItem(0, d, ParseFloat(a), c, <<>>) :
        d \in DateInputs, a \in DrawnAmounts, c \in CategoryInputs}

\* entries of either month
StoreEntries ==
    {NewItem(0, d, ParseFloat(<<"0", ".", "0", "1">>), CATEGORIES[1], <<>>) :
        d \in DateInputs}

Drawn(collections, amounts) ==
    /\ phase = "mounted"
    /\ \E items \in collections : expenses = ArrayOf(items)
    /\ slot = Stringify(expenses)
    /\ date = TodayISO
    /\ amount \in amounts
    /\ category = CATEGORIES[1]
    /\ note = <<>>
    /\ filterMonth = monthKey(TodayISO)
    /\ writeFailures = 0
    /\ last = Event("none", <<>>, 0, 0)
    /\ prev = NoPrev

\* SpecStore: add, remove and month selection
InitStore == Drawn(Collections(StoreEntries, MaxDrawnLen), {<<>>} \cup DrawnAmounts)

NextStore ==
    \/ AddExpense
    \/ RemoveExpense
    \/ SetFilterMonth

SpecStore == InitStore /\ [][NextStore]_vars

\* SpecTotals: the derived values of every render, month by month
InitTotals == Drawn(Collections(TotalsEntries, MaxDrawnLen), {<<>>})

NextTotals == SetFilterMonth

SpecTotals == InitTotals /\ [][NextTotals]_vars

---------------------------------------------------------------------------
(* SpecForm: addExpense applied to every form state drawn from the texts    *)

InitForm ==
    /\ phase = "mounted"
    /\ \E items \in Collections({CHOOSE e \in StoreEntries : TRUE}, 1) :
            expenses = ArrayOf(items)
    /\ slot = Stringify(expenses)
    /\ date \in DateInputs \cup {0}
    /\ amount \in AmountTexts
    /\ category \in CategoryInputs
    /\ note \in NoteTexts
    /\ filterMonth = monthKey(TodayISO)
    /\ writeFailures = 0
    /\ last = Event("none", <<>>, 0, 0)
    /\ prev = NoPrev

NextForm == AddExpense

SpecForm == InitForm /\ [][NextForm]_vars

---------------------------------------------------------------------------
(* Vocabulary of the claims *)

\* the text parses as a number greater than 0
PositiveAmount(text) ==
    LET v == ParseFloat(text)
    IN  v.k \in {"fin", "inf"} /\ ~v.neg /\ ~(v.k = "fin" /\ v.v = BigZero)

\* the text is empty or non-numeric (NaN), not finite, or <= 0
InvalidAmount(text) ==
    LET v == ParseFloat(text)
    IN  v.k # "fin" \/ v.neg \/ v.v = BigZero

Spaces(n) == [i \in 1..n |-> " "]

\* t is s without its leading and trailing white space
IsTrimOf(t, s) ==
    /\ t = <<>> \/ (t[1] # " " /\ t[Len(t)] # " ")
    /\ \E i, j \in 0..Len(s) : s = Spaces(i) \o t \o Spaces(j)

\* the positions of old that removing id keeps
Kept(old, id) == {i \in 1..Len(old) : old[i].id # id}

\* new is old without the entries whose id is id, in the same order
IsOldWithout(new, old, id) ==
    /\ Len(new) = Cardinality(Kept(old, id))
    /\ \A i \in Kept(old, id) :
          new[Cardinality({j \in Kept(old, id) : j <= i})] = old[i]

Sets(calls) == Cardinality({i \in 1..Len(calls) : calls[i].op = "set"})
Gets(calls) == Cardinality({i \in 1..Len(calls) : calls[i].op = "get"})
AllOk(calls) == \A i \in 1..Len(calls) : calls[i].ok

\* a slot content that is no serialized array
NotAnArrayText(text) ==
    \/ text.t = "garbage"
    \/ text.t = "json" /\ text.v.t # "array"

RECURSIVE SumValues(_)
\* the sum of byCategory.values(), in the order of the map
SumValues(map) ==
    IF map = <<>> THEN Fin(BigZero)
    ELSE JSAdd(SumValues(SubSeq(map, 1, Len(map) - 1)), map[Len(map)].val)

\* a finite amount in whole cents, rounded to the nearest
Cents(x) == MathRound(FMul(x.v, 100))

Categories(items) == {items[i].category : i \in 1..Len(items)}

Keys(map) == {map[i].key : i \in 1..Len(map)}

---------------------------------------------------------------------------
(* Claims *)

C2_InvalidIsNoOp ==
    [][(last'.event = "add" /\ (date = 0 \/ InvalidAmount(amount))) =>
          UNCHANGED <<expenses, slot, date, amount, category, note>>]_vars

\* C3: removeExpense(id) removes the entry with that id and keeps every
\* other entry in the same relative order; with no such entry the collection
\* is unchanged, so a second removeExpense(id) changes nothing.
C3_RemoveById ==
    [][last'.event = "remove" =>
          /\ IsOldWithout(expenses'.items, expenses.items, last'.arg)
          /\ (last'.arg \notin Ids(expenses.items) => expenses' = expenses)
          /\ ((last.event = "remove" /\ last.arg = last'.arg) => expenses' = expenses)]_vars

\* C3 witness: the middle one of three entries was removed
C3_Witness ==
    /\ last.event = "remove" /\ last.arg = 2
    /\ Len(expenses.items) = 2
    /\ expenses.items[1].id = 1
    /\ expenses.items[2].id = 3

\* C4: a page closed with a collection c whose saves succeeded and mounted
\* again (storage working) holds c in memory and c in the slot.
C4_SurvivesRestart ==
    [][(phase = "unmounted" /\ phase' # "unmounted"
            /\ prev.held /\ prev.saved /\ prev.c.t = "array" /\ AllOk(last'.calls)) =>
          /\ expenses' = prev.c
          /\ slot' = Stringify(prev.c)]_vars

\* C5: mounting with a slot that holds no serialized array ends with an
\* empty collection and rendering does not throw.
C5_CorruptIsEmpty ==
    (last.event = "mount" /\ NotAnArrayText(last.calls[1].text)) =>
        (phase = "mounted" /\ expenses = EmptyArray)

C7_StoredAmountPositiveCents ==
    (last.event = "add" /\ last.changes = 1) =>
        LET a == expenses.items[1].amount
        IN  /\ a.k = "fin"
            /\ a.v # BigZero
            /\ a.v = FDiv(Cents(a), 100)

\* C8: a mount makes one load and no save before the collection has changed;
\* after that there is exactly one save per change of the collection, and
\* it writes the current collection.
C8_OneSavePerChange ==
    /\ last.event = "mount" => Gets(last.calls) = 1
    /\ last.event # "mount" => Gets(last.calls) = 0
    /\ Sets(last.calls) = last.changes
    /\ \A i \in 1..Len(last.calls) :
          (i = Len(last.calls) /\ last.calls[i].op = "set") =>
              last.calls[i].text = Stringify(expenses)

\* C9: the save that follows an add or a remove is one setItem of the whole
\* collection; when it throws, nothing propagates, the collection keeps the
\* mutation, the slot keeps its previous text and the write is not repeated;
\* when it succeeds, the slot holds the in-memory collection.
C9_WriteFailureSwallowed ==
    [][(last'.event \in {"add", "remove"} /\ last'.changes = 1) =>
          /\ phase' = "mounted"
          /\ Len(last'.calls) = 1
          /\ last'.calls[1].op = "set"
          /\ last'.calls[1].text = Stringify(expenses')
          /\ last'.event = "add" =>
                (Len(expenses'.items) = Len(expenses.items) + 1
                    /\ expenses'.items[1].id = last'.arg)
          /\ last'.event = "remove" => last'.arg \notin Ids(expenses'.items)
          /\ ~last'.calls[1].ok => slot' = slot
          /\ last'.calls[1].ok => slot' = Stringify(expenses')]_vars

\* C9 witness: after a save that threw, a later add or remove was saved and
\* the slot holds the collection again
C9_Witness ==
    /\ writeFailures = 1
    /\ last.event \in {"add", "remove"} /\ last.changes = 1
    /\ last.calls[1].ok
    /\ expenses.items # <<>>
    /\ slot = Stringify(expenses)

\* C10: on a mounted page the selected month is one of the keys of
\* monthsAvailable.
C10_FilterMonthSelectable ==
    phase = "mounted" => filterMonth \in MonthsAvailable(expenses.items)

===========================================================================
